---- MODULE Spec2Model ----
(***************************************************************************)
(* A model of the med terminal editor: the line buffer (document.rs), the  *)
(* cursor / viewport controller and the session loop (editor.rs) and the   *)
(* terminal size (terminal.rs).  row.rs is not part of the sources at hand *)
(* and the Row operations are modelled from the written specification.     *)
(*                                                                         *)
(* A character is a one-character string, a Row is a sequence of           *)
(* characters and a file is a sequence of characters.  Rust indices are    *)
(* 0-based: row index r of the program is rows[r + 1] here.                *)
(***************************************************************************)
EXTENDS Integers, Sequences, FiniteSets, TLC

VARIABLES document, cursor_position, offset, terminal, status_message,
          is_running, pc, args, fs, screen

vars == <<document, cursor_position, offset, terminal, status_message,
          is_running, pc, args, fs, screen>>

(***************************************************************************)
(* Bounds of the model.                                                    *)
(***************************************************************************)
(* the rows plus the characters of a Document in the editor session *)
MaxSize == 4
(* the same, with the Document interface called directly *)
DocMaxSize == 5

LF == "\n"
CR == "\r"

(* characters the keyboard delivers as KeyCode::Char(c) *)
KeyChars == {"s"}
(* characters handed to Document::insert by a direct caller *)
InsertChars == {"a", LF}
(* KeyModifiers: NONE and CONTROL; every arm of process_key that is not   *)
(* written for both treats any other set of modifiers as it treats CONTROL *)
(* on a key other than Char('s')                                           *)
Modifiers == {"NONE", "CONTROL"}
MoveCodes == {"Up", "Down", "Left", "Right", "Home", "End", "PageUp", "PageDown"}
(* key codes no arm of process_key names *)
OtherCodes == {"Tab"}

(* what crossterm::terminal::size() reports: <<columns, rows>> *)
TerminalSizes == { <<0, 1>>, <<1, 3>>, <<2, 4>> }

(* contents of the file a Document is opened from: an empty file, a line  *)
(* ending in CR CR LF, an empty line and a last line without LF          *)
FileContents ==
  { <<>>,
    <<"a", CR, CR, LF>>,
    <<LF, "b", "c">> }

Min(a, b) == IF a < b THEN a ELSE b
SatSub(a, b) == IF a > b THEN a - b ELSE 0

Pos(c, r) == [col |-> c, row |-> r]
PositionDefault == Pos(0, 0)

(***************************************************************************)
(* Row (row.rs): modelled from the specification, section 4.1.             *)
(***************************************************************************)
RowFrom(text) == text
RowAsBytes(row) == row
RowLen(row) == Len(row)
RowInsert(row, col, ch) ==
  IF col >= Len(row) THEN Append(row, ch)
  ELSE SubSeq(row, 1, col) \o <<ch>> \o SubSeq(row, col + 1, Len(row))
RowDelete(row, col) ==
  IF col >= Len(row) THEN row
  ELSE SubSeq(row, 1, col) \o SubSeq(row, col + 2, Len(row))
RowSplitHead(row, col) == SubSeq(row, 1, Min(col, Len(row)))
RowSplitTail(row, col) == SubSeq(row, Min(col, Len(row)) + 1, Len(row))
RowAppend(row, other) == row \o other

(***************************************************************************)
(* Document (document.rs).                                                 *)
(***************************************************************************)
DocumentDefault == [rows |-> <<>>, path |-> "None", dirty |-> FALSE]

(* BufRead::lines(): records end at LF; the LF is dropped and, when an LF  *)
(* was dropped, one CR before it; a last record without LF is a line when  *)
(* it is not empty.                                                        *)
StripLineEnd(rec) ==
  IF Len(rec) > 0 /\ rec[Len(rec)] = LF
  THEN LET body == SubSeq(rec, 1, Len(rec) - 1)
       IN IF Len(body) > 0 /\ body[Len(body)] = CR
          THEN SubSeq(body, 1, Len(body) - 1)
          ELSE body
  ELSE rec

RECURSIVE Lines(_, _)
Lines(bytes, rec) ==
  IF bytes = <<>>
  THEN IF rec = <<>> THEN <<>> ELSE <<StripLineEnd(rec)>>
  ELSE IF Head(bytes) = LF
       THEN <<StripLineEnd(Append(rec, LF))>> \o Lines(Tail(bytes), <<>>)
       ELSE Lines(Tail(bytes), Append(rec, Head(bytes)))

RECURSIVE RowsFrom(_)
RowsFrom(lines) ==
  IF lines = <<>> THEN <<>> ELSE <<RowFrom(Head(lines))>> \o RowsFrom(Tail(lines))

Open(bytes) ==
  [rows |-> RowsFrom(Lines(bytes, <<>>)), path |-> "Some", dirty |-> FALSE]

(* a save() that writes the newline between the rows, none after the last *)
RECURSIVE WriteRowsJoined(_)
WriteRowsJoined(rows) ==
  IF rows = <<>> THEN <<>>
  ELSE IF Tail(rows) = <<>> THEN RowAsBytes(Head(rows))
  ELSE RowAsBytes(Head(rows)) \o <<LF>> \o WriteRowsJoined(Tail(rows))

(* the bytes save() writes for a Document that has a path *)
RECURSIVE WriteRows(_)
WriteRows(rows) ==
  IF rows = <<>> THEN <<>>
  ELSE RowAsBytes(Head(rows)) \o <<LF>> \o WriteRows(Tail(rows))

(* save(): io is what the file system does: "ok", "create_fails"          *)
(* (File::create returns an error), "write_fails" (a write_all returns an  *)
(* error) or "flush_fails" (every write_all fills the BufWriter and the    *)
(* write of its buffer, when it is dropped, fails: the error is dropped    *)
(* with it).                                                               *)
IoOutcomes == {"ok", "create_fails", "write_fails", "flush_fails"}

SaveIsOk(doc, io) ==
  IF doc.path = "Some" THEN io \in {"ok", "flush_fails"} ELSE TRUE

(* the files save() may leave behind: untouched without a path or when     *)
(* create fails, all rows when every write succeeds, the rows written so   *)
(* far when a write or the last flush fails                                *)
SaveFiles(doc, io, file) ==
  IF doc.path = "Some"
  THEN IF io = "ok" THEN { [state |-> "ok", bytes |-> WriteRows(doc.rows)] }
       ELSE IF io = "create_fails" THEN { file }
       ELSE { [state |-> "ok", bytes |-> WriteRows(SubSeq(doc.rows, 1, n))] :
                n \in 0 .. Len(doc.rows) }
  ELSE { file }

DocLen(doc) == Len(doc.rows)

(* the length of the Row at index, 0 when row(index) is None *)
RowLenAt(doc, index) ==
  IF index < Len(doc.rows) THEN RowLen(doc.rows[index + 1]) ELSE 0

(* an insert_newline that appends no row at the append position *)
InsertNewlineNoPush(doc, at) ==
  IF at.row > Len(doc.rows) THEN doc
  ELSE IF at.row = Len(doc.rows)
       THEN [doc EXCEPT !.dirty = TRUE]
       ELSE LET old == doc.rows[at.row + 1]
                new_row == RowSplitTail(old, at.col)
            IN [doc EXCEPT !.dirty = TRUE,
                           !.rows = SubSeq(doc.rows, 1, at.row)
                                    \o <<RowSplitHead(old, at.col)>>
                                    \o <<new_row>>
                                    \o SubSeq(doc.rows, at.row + 2, Len(doc.rows))]

(* an insert_newline that inserts the new row at at.row, not at.row + 1 *)
InsertNewlineAbove(doc, at) ==
  IF at.row > Len(doc.rows) THEN doc
  ELSE IF at.row = Len(doc.rows)
       THEN [doc EXCEPT !.dirty = TRUE, !.rows = Append(doc.rows, <<>>)]
       ELSE LET old == doc.rows[at.row + 1]
                new_row == RowSplitTail(old, at.col)
            IN [doc EXCEPT !.dirty = TRUE,
                           !.rows = SubSeq(doc.rows, 1, at.row)
                                    \o <<new_row>>
                                    \o <<RowSplitHead(old, at.col)>>
                                    \o SubSeq(doc.rows, at.row + 2, Len(doc.rows))]

InsertNewline(doc, at) ==
  IF at.row > Len(doc.rows) THEN doc
  ELSE IF at.row = Len(doc.rows)
       THEN [doc EXCEPT !.dirty = TRUE, !.rows = Append(doc.rows, <<>>)]
       ELSE LET old == doc.rows[at.row + 1]
                new_row == RowSplitTail(old, at.col)
            IN [doc EXCEPT !.dirty = TRUE,
                           !.rows = SubSeq(doc.rows, 1, at.row)
                                    \o <<RowSplitHead(old, at.col)>>
                                    \o <<new_row>>
                                    \o SubSeq(doc.rows, at.row + 2, Len(doc.rows))]

(* an insert that marks the Document dirty before it tests the row *)
InsertMarksFirst(doc, at, c) ==
  IF at.row > Len(doc.rows) THEN [doc EXCEPT !.dirty = TRUE]
  ELSE IF c = LF THEN InsertNewline([doc EXCEPT !.dirty = TRUE], at)
  ELSE IF at.row = Len(doc.rows)
       THEN [doc EXCEPT !.dirty = TRUE,
                        !.rows = Append(doc.rows, RowInsert(<<>>, 0, c))]
       ELSE [doc EXCEPT !.dirty = TRUE,
                        !.rows[at.row + 1] = RowInsert(@, at.col, c)]

(* an insert that appends no row at the append position *)
InsertNoAppend(doc, at, c) ==
  IF at.row > Len(doc.rows) THEN doc
  ELSE IF c = LF THEN InsertNewline([doc EXCEPT !.dirty = TRUE], at)
  ELSE IF at.row = Len(doc.rows)
       THEN [doc EXCEPT !.dirty = TRUE]
       ELSE [doc EXCEPT !.dirty = TRUE,
                        !.rows[at.row + 1] = RowInsert(@, at.col, c)]

(* an insert that treats the newline as any other character *)
InsertKeepsNewline(doc, at, c) ==
  IF at.row > Len(doc.rows) THEN doc
  ELSE IF at.row = Len(doc.rows)
       THEN [doc EXCEPT !.dirty = TRUE,
                        !.rows = Append(doc.rows, RowInsert(<<>>, 0, c))]
       ELSE [doc EXCEPT !.dirty = TRUE,
                        !.rows[at.row + 1] = RowInsert(@, at.col, c)]

(* an insert that puts the character at the start of the row *)
InsertAtStart(doc, at, c) ==
  IF at.row > Len(doc.rows) THEN doc
  ELSE IF c = LF THEN InsertNewline([doc EXCEPT !.dirty = TRUE], at)
  ELSE IF at.row = Len(doc.rows)
       THEN [doc EXCEPT !.dirty = TRUE,
                        !.rows = Append(doc.rows, RowInsert(<<>>, 0, c))]
       ELSE [doc EXCEPT !.dirty = TRUE,
                        !.rows[at.row + 1] = RowInsert(@, 0, c)]

Insert(doc, at, c) ==
  IF at.row > Len(doc.rows) THEN doc
  ELSE IF c = LF THEN InsertNewline([doc EXCEPT !.dirty = TRUE], at)
  ELSE IF at.row = Len(doc.rows)
       THEN [doc EXCEPT !.dirty = TRUE,
                        !.rows = Append(doc.rows, RowInsert(<<>>, 0, c))]
       ELSE [doc EXCEPT !.dirty = TRUE,
                        !.rows[at.row + 1] = RowInsert(@, at.col, c)]

(* a delete that joins two rows and does not mark the Document dirty *)
DeleteJoinsClean(doc, at) ==
  LET len == Len(doc.rows) IN
  IF at.row >= len THEN doc
  ELSE IF at.col = RowLen(doc.rows[at.row + 1]) /\ at.row + 1 < len
       THEN LET next_row == doc.rows[at.row + 2]
            IN [doc EXCEPT !.rows = SubSeq(doc.rows, 1, at.row)
                                    \o <<RowAppend(doc.rows[at.row + 1], next_row)>>
                                    \o SubSeq(doc.rows, at.row + 3, len)]
       ELSE [doc EXCEPT !.dirty = TRUE,
                        !.rows[at.row + 1] = RowDelete(@, at.col)]

(* a delete that removes the next row and does not append it *)
DeleteDropsNext(doc, at) ==
  LET len == Len(doc.rows) IN
  IF at.row >= len THEN doc
  ELSE IF at.col = RowLen(doc.rows[at.row + 1]) /\ at.row + 1 < len
       THEN [doc EXCEPT !.dirty = TRUE,
                        !.rows = SubSeq(doc.rows, 1, at.row + 1)
                                 \o SubSeq(doc.rows, at.row + 3, len)]
       ELSE [doc EXCEPT !.dirty = TRUE,
                        !.rows[at.row + 1] = RowDelete(@, at.col)]

Delete(doc, at) ==
  LET len == Len(doc.rows) IN
  IF at.row >= len THEN doc
  ELSE IF at.col = RowLen(doc.rows[at.row + 1]) /\ at.row + 1 < len
       THEN LET next_row == doc.rows[at.row + 2]
            IN [doc EXCEPT !.dirty = TRUE,
                           !.rows = SubSeq(doc.rows, 1, at.row)
                                    \o <<RowAppend(doc.rows[at.row + 1], next_row)>>
                                    \o SubSeq(doc.rows, at.row + 3, len)]
       ELSE [doc EXCEPT !.dirty = TRUE,
                        !.rows[at.row + 1] = RowDelete(@, at.col)]

(***************************************************************************)
(* Terminal (terminal.rs).                                                 *)
(***************************************************************************)
TerminalDefault(size) == [columns |-> size[1], rows |-> SatSub(size[2], 2)]

(***************************************************************************)
(* Editor (editor.rs): cursor movement and scrolling.                      *)
(***************************************************************************)
(* a move_cursor that leaves the column as the key set it *)
ClampColNone(col, width) == col

(* line 262: col = min(col, width) *)
ClampCol(col, width) == Min(col, width)

(* a move_cursor() whose Down stops on the last row of the Document *)
MoveCursorDownInBuffer(doc, cur, terminal_rows, key) ==
  LET height == DocLen(doc)
      width == RowLenAt(doc, cur.row)
      moved ==
        CASE key = "Up" -> Pos(cur.col, SatSub(cur.row, 1))
          [] key = "Down" ->
               IF cur.row + 1 < height THEN Pos(cur.col, cur.row + 1) ELSE cur
          [] key = "Left" ->
               IF cur.col > 0 THEN Pos(cur.col - 1, cur.row)
               ELSE IF cur.row > 0
                    THEN Pos(RowLenAt(doc, cur.row - 1), cur.row - 1)
                    ELSE cur
          [] key = "Right" ->
               IF cur.col < width THEN Pos(cur.col + 1, cur.row)
               ELSE IF cur.row < height THEN Pos(0, cur.row + 1)
                    ELSE cur
          [] key = "PageUp" ->
               Pos(cur.col, IF cur.row > terminal_rows
                            THEN cur.row - terminal_rows ELSE 0)
          [] key = "PageDown" ->
               Pos(cur.col, IF cur.row + terminal_rows < height
                            THEN cur.row + terminal_rows ELSE height)
          [] key = "Home" -> Pos(0, cur.row)
          [] key = "End" -> Pos(width, cur.row)
          [] OTHER -> cur
  IN Pos(ClampCol(moved.col, RowLenAt(doc, moved.row)), moved.row)

(* a move_cursor() whose Left goes to the start of the previous row *)
MoveCursorLeftToStart(doc, cur, terminal_rows, key) ==
  LET height == DocLen(doc)
      width == RowLenAt(doc, cur.row)
      moved ==
        CASE key = "Up" -> Pos(cur.col, SatSub(cur.row, 1))
          [] key = "Down" ->
               IF cur.row < height THEN Pos(cur.col, cur.row + 1) ELSE cur
          [] key = "Left" ->
               IF cur.col > 0 THEN Pos(cur.col - 1, cur.row)
               ELSE IF cur.row > 0
                    THEN Pos(0, cur.row - 1)
                    ELSE cur
          [] key = "Right" ->
               IF cur.col < width THEN Pos(cur.col + 1, cur.row)
               ELSE IF cur.row < height THEN Pos(0, cur.row + 1)
                    ELSE cur
          [] key = "PageUp" ->
               Pos(cur.col, IF cur.row > terminal_rows
                            THEN cur.row - terminal_rows ELSE 0)
          [] key = "PageDown" ->
               Pos(cur.col, IF cur.row + terminal_rows < height
                            THEN cur.row + terminal_rows ELSE height)
          [] key = "Home" -> Pos(0, cur.row)
          [] key = "End" -> Pos(width, cur.row)
          [] OTHER -> cur
  IN Pos(ClampCol(moved.col, RowLenAt(doc, moved.row)), moved.row)

MoveCursor(doc, cur, terminal_rows, key) ==
  LET height == DocLen(doc)
      width == RowLenAt(doc, cur.row)
      moved ==
        CASE key = "Up" -> Pos(cur.col, SatSub(cur.row, 1))
          [] key = "Down" ->
               IF cur.row < height THEN Pos(cur.col, cur.row + 1) ELSE cur
          [] key = "Left" ->
               IF cur.col > 0 THEN Pos(cur.col - 1, cur.row)
               ELSE IF cur.row > 0
                    THEN Pos(RowLenAt(doc, cur.row - 1), cur.row - 1)
                    ELSE cur
          [] key = "Right" ->
               IF cur.col < width THEN Pos(cur.col + 1, cur.row)
               ELSE IF cur.row < height THEN Pos(0, cur.row + 1)
                    ELSE cur
          [] key = "PageUp" ->
               Pos(cur.col, IF cur.row > terminal_rows
                            THEN cur.row - terminal_rows ELSE 0)
          [] key = "PageDown" ->
               Pos(cur.col, IF cur.row + terminal_rows < height
                            THEN cur.row + terminal_rows ELSE height)
          [] key = "Home" -> Pos(0, cur.row)
          [] key = "End" -> Pos(width, cur.row)
          [] OTHER -> cur
  IN Pos(ClampCol(moved.col, RowLenAt(doc, moved.row)), moved.row)

(* a scroll() that advances the offset to cursor - extent *)
ScrollAxisShort(at, off, extent) ==
  IF at < off THEN at
  ELSE IF at >= off + extent THEN SatSub(at, extent)
  ELSE off

(* a scroll() that moves the offset to the cursor inside the window too *)
ScrollAxisSnaps(at, off, extent) ==
  IF at < off THEN at
  ELSE IF at >= off + extent THEN SatSub(at, extent) + 1
  ELSE at

(* one dimension of scroll(): the new offset for cursor coordinate at *)
ScrollAxis(at, off, extent) ==
  IF at < off THEN at
  ELSE IF at >= off + extent THEN SatSub(at, extent) + 1
  ELSE off

Scroll(cur, off, term) ==
  Pos(ScrollAxis(cur.col, off.col, term.columns),
      ScrollAxis(cur.row, off.row, term.rows))

(***************************************************************************)
(* The bounds of the model: an edit is explored when it does not grow the  *)
(* Document past the bound on its size.                                    *)
(***************************************************************************)
Max(a, b) == IF a > b THEN a ELSE b
RECURSIVE Size(_)
Size(rows) ==
  IF rows = <<>> THEN 0 ELSE 1 + Len(Head(rows)) + Size(Tail(rows))

Fits(doc, old, max_size) == Size(doc.rows) <= Max(max_size, Size(old.rows))

InBounds(doc, old) == Fits(doc, old, MaxSize)

MissingFile == [state |-> "missing", bytes |-> <<>>]
UnreadableFile == [state |-> "unreadable", bytes |-> <<>>]
File(b) == [state |-> "ok", bytes |-> b]
(* the file named on the command line when the session starts *)
SessionFiles == { MissingFile, UnreadableFile, File(<<"a", LF>>) }

(***************************************************************************)
(* The session: Editor::default(), then Editor::run().                     *)
(*   pc = "init"    before Editor::default()                               *)
(*        "run"     the Editor is built, run() not yet entered             *)
(*        "loop"    at the test of `while self.is_running`                 *)
(*        "events"  inside process_events(), waiting in select!            *)
(*        "done"    run() returned Ok                                      *)
(*        "error"   run() returned Err                                     *)
(*        "panic"   the process panicked                                   *)
(***************************************************************************)
Init ==
  /\ pc = "init"
  /\ \/ args = <<"med">> /\ fs = MissingFile
     \/ args = <<"med", "path">> /\ fs \in SessionFiles
  /\ document = DocumentDefault
  /\ cursor_position = PositionDefault
  /\ offset = PositionDefault
  /\ terminal = TerminalDefault(<<0, 0>>)
  /\ status_message = ""
  /\ is_running = FALSE
  /\ screen = "main"

(* Editor::default() with args.len() <= 1 *)
StartNoArg(size) ==
  /\ pc = "init"
  /\ ~(Len(args) > 1)
  /\ document' = DocumentDefault
  /\ terminal' = TerminalDefault(size)
  /\ cursor_position' = PositionDefault
  /\ offset' = PositionDefault
  /\ status_message' = ""
  /\ is_running' = TRUE
  /\ pc' = "run"
  /\ UNCHANGED <<args, fs, screen>>

(* Editor::default() with a path whose file opens and reads *)
StartOpen(size) ==
  /\ pc = "init"
  /\ Len(args) > 1
  /\ fs.state = "ok"
  /\ document' = Open(fs.bytes)
  /\ terminal' = TerminalDefault(size)
  /\ cursor_position' = PositionDefault
  /\ offset' = PositionDefault
  /\ status_message' = ""
  /\ is_running' = TRUE
  /\ pc' = "run"
  /\ UNCHANGED <<args, fs, screen>>

(* Editor::default() with a path whose file does not open or does not     *)
(* read: the expect() in Document::open panics                             *)
StartOpenFails ==
  /\ pc = "init"
  /\ Len(args) > 1
  /\ fs.state \in {"missing", "unreadable"}
  /\ pc' = "panic"
  /\ UNCHANGED <<document, cursor_position, offset, terminal, status_message,
                 is_running, args, fs, screen>>

(* Terminal::default() returns Err: the expect() in Editor::default        *)
(* panics, the Document being built before it                              *)
StartTerminalFails ==
  /\ pc = "init"
  /\ Len(args) > 1 => fs.state = "ok"
  /\ pc' = "panic"
  /\ UNCHANGED <<document, cursor_position, offset, terminal, status_message,
                 is_running, args, fs, screen>>

(* run(): EnterAlternateScreen, enable_raw_mode, MoveTo(0, 0) *)
RunEnter ==
  /\ pc = "run"
  /\ pc' = "loop"
  /\ screen' = "alternate"
  /\ UNCHANGED <<document, cursor_position, offset, terminal, status_message,
                 is_running, args, fs>>

RunEnterFails ==
  /\ pc = "run"
  /\ pc' = "error"
  /\ UNCHANGED <<document, cursor_position, offset, terminal, status_message,
                 is_running, args, fs, screen>>

(* a loop that does not test is_running *)
RefreshAlways ==
  /\ pc = "loop"
  /\ pc' = "events"
  /\ screen' = "drawn"
  /\ UNCHANGED <<document, cursor_position, offset, terminal, status_message,
                 is_running, args, fs>>

(* refresh_screen() returns Ok *)
Refresh ==
  /\ pc = "loop"
  /\ is_running
  /\ pc' = "events"
  /\ screen' = "drawn"
  /\ UNCHANGED <<document, cursor_position, offset, terminal, status_message,
                 is_running, args, fs>>

(* refresh_screen() returns Err: die() issues Clear(All) and panics; the   *)
(* screen variable records that the clear was issued                      *)
RefreshFails ==
  /\ pc = "loop"
  /\ is_running
  /\ pc' = "panic"
  /\ screen' = "cleared"
  /\ UNCHANGED <<document, cursor_position, offset, terminal, status_message,
                 is_running, args, fs>>

(* the while test fails: disable_raw_mode, LeaveAlternateScreen *)
LoopExit ==
  /\ pc = "loop"
  /\ ~is_running
  /\ pc' = "done"
  /\ screen' = "main"
  /\ UNCHANGED <<document, cursor_position, offset, terminal, status_message,
                 is_running, args, fs>>

(* the tail of process_key: the new state, then scroll() *)
Dispatched(doc, cur, status, running) ==
  /\ pc = "events"
  /\ InBounds(doc, document)
  /\ document' = doc
  /\ cursor_position' = cur
  /\ offset' = Scroll(cur, offset, terminal)
  /\ status_message' = status
  /\ is_running' = running
  /\ pc' = "loop"
  /\ UNCHANGED <<terminal, args, screen>>

(* the navigation arm of process_key: the Document and the cursor it leaves *)
Navigate(doc, cur, terminal_rows, code) ==
  [document |-> doc,
   cursor_position |-> MoveCursor(doc, cur, terminal_rows, code)]

KeyMove(code) ==
  LET key == Navigate(document, cursor_position, terminal.rows, code)
  IN /\ Dispatched(key.document, key.cursor_position,
                   status_message, is_running)
     /\ UNCHANGED fs

KeyEnter(m) ==
  LET doc == InsertNewline(document, cursor_position)
      down == MoveCursor(doc, cursor_position, terminal.rows, "Down")
  IN /\ Dispatched(doc, MoveCursor(doc, down, terminal.rows, "Home"),
                   status_message, is_running)
     /\ UNCHANGED fs

KeyDelete(m) ==
  /\ Dispatched(Delete(document, cursor_position), cursor_position,
                status_message, is_running)
  /\ UNCHANGED fs

(* a Backspace arm that deletes at the cursor and then moves left *)
BackspaceDeletesFirst(doc, cur, terminal_rows) ==
  IF cur.col > 0 \/ cur.row > 0
  THEN LET deleted == Delete(doc, cur)
       IN [document |-> deleted,
           cursor_position |-> MoveCursor(deleted, cur, terminal_rows, "Left")]
  ELSE [document |-> doc, cursor_position |-> cur]

(* the Backspace arm of process_key: the Document and the cursor it leaves *)
Backspace(doc, cur, terminal_rows) ==
  IF cur.col > 0 \/ cur.row > 0
  THEN LET left == MoveCursor(doc, cur, terminal_rows, "Left")
       IN [document |-> Delete(doc, left), cursor_position |-> left]
  ELSE [document |-> doc, cursor_position |-> cur]

KeyBackspace(m) ==
  LET key == Backspace(document, cursor_position, terminal.rows)
  IN /\ Dispatched(key.document, key.cursor_position,
                   status_message, is_running)
     /\ UNCHANGED fs

KeyEsc ==
  /\ Dispatched(document, cursor_position, status_message, FALSE)
  /\ UNCHANGED fs

KeySave(io) ==
  /\ Dispatched(document, cursor_position,
                IF SaveIsOk(document, io) THEN "File written."
                ELSE "Unable to write the file!",
                is_running)
  /\ fs' \in SaveFiles(document, io, fs)

KeyChar(c, m) ==
  /\ ~(c = "s" /\ m = "CONTROL")
  /\ LET doc == Insert(document, cursor_position, c)
     IN Dispatched(doc, MoveCursor(doc, cursor_position, terminal.rows, "Right"),
                   status_message, is_running)
  /\ UNCHANGED fs

(* every KeyEvent no earlier arm matches *)
KeyOther(code, m) ==
  /\ \/ code \in MoveCodes \cup {"Esc"} /\ m # "NONE"
     \/ code \in OtherCodes
  /\ Dispatched(document, cursor_position, status_message, is_running)
  /\ UNCHANGED fs

(* Event::Mouse, Event::Resize and the delay of select! *)
Ignored ==
  /\ pc = "events"
  /\ pc' = "loop"
  /\ UNCHANGED <<document, cursor_position, offset, terminal, status_message,
                 is_running, args, fs, screen>>

EventMouse == Ignored
EventResize == Ignored
Timeout == Ignored

(* Some(Err(e)): process_events returns Err and run() returns it *)
EventError ==
  /\ pc = "events"
  /\ pc' = "error"
  /\ UNCHANGED <<document, cursor_position, offset, terminal, status_message,
                 is_running, args, fs, screen>>

(* None: the event stream ended *)
EventNone ==
  /\ pc = "events"
  /\ is_running' = FALSE
  /\ pc' = "loop"
  /\ UNCHANGED <<document, cursor_position, offset, terminal, status_message,
                 args, fs, screen>>

Next ==
  \/ \E size \in TerminalSizes : StartNoArg(size)
  \/ \E size \in TerminalSizes : StartOpen(size)
  \/ StartOpenFails
  \/ StartTerminalFails
  \/ RunEnter
  \/ RunEnterFails
  \/ Refresh
  \/ RefreshFails
  \/ LoopExit
  \/ \E code \in MoveCodes : KeyMove(code)
  \/ \E m \in Modifiers : KeyEnter(m)
  \/ \E m \in Modifiers : KeyDelete(m)
  \/ \E m \in Modifiers : KeyBackspace(m)
  \/ KeyEsc
  \/ \E io \in IoOutcomes : KeySave(io)
  \/ \E c \in KeyChars, m \in Modifiers : KeyChar(c, m)
  \/ \E code \in MoveCodes \cup OtherCodes \cup {"Esc"}, m \in Modifiers : KeyOther(code, m)
  \/ EventMouse
  \/ EventResize
  \/ Timeout
  \/ EventError
  \/ EventNone

Spec == Init /\ [][Next]_vars

(***************************************************************************)
(* The Document interface called directly, at any position: the Document   *)
(* is the default one or is opened from a file, and a caller inserts,      *)
(* deletes, saves and opens.  The editor's variables stay as built.        *)
(***************************************************************************)
(* the positions a caller passes: columns and rows from 0 *)
MaxCol == 3
MaxRow == 4
Positions == { Pos(c, r) : c \in 0 .. MaxCol, r \in 0 .. MaxRow }

DocInit ==
  /\ pc = "document"
  /\ args = <<>>
  /\ \/ document = DocumentDefault /\ fs = MissingFile
     \/ \E b \in FileContents : document = Open(b) /\ fs = File(b)
  /\ cursor_position = PositionDefault
  /\ offset = PositionDefault
  /\ terminal = TerminalDefault(<<0, 0>>)
  /\ status_message = ""
  /\ is_running = FALSE
  /\ screen = "main"

DocFrame ==
  UNCHANGED <<cursor_position, offset, terminal, status_message, is_running,
              pc, args, screen>>

DocInsertNewline(at) ==
  /\ pc = "document"
  /\ document' = InsertNewline(document, at)
  /\ Fits(document', document, DocMaxSize)
  /\ UNCHANGED fs
  /\ DocFrame

DocInsert(at, c) ==
  /\ pc = "document"
  /\ document' = Insert(document, at, c)
  /\ Fits(document', document, DocMaxSize)
  /\ UNCHANGED fs
  /\ DocFrame

DocDelete(at) ==
  /\ pc = "document"
  /\ document' = Delete(document, at)
  /\ Fits(document', document, DocMaxSize)
  /\ UNCHANGED fs
  /\ DocFrame

DocSave(io) ==
  /\ pc = "document"
  /\ fs' \in SaveFiles(document, io, fs)
  /\ UNCHANGED document
  /\ DocFrame

(* Document::open on the path of the Document, the file being readable *)
DocOpen ==
  /\ pc = "document"
  /\ document.path = "Some"
  /\ fs.state = "ok"
  /\ document' = Open(fs.bytes)
  /\ UNCHANGED fs
  /\ DocFrame

DocNext ==
  \/ \E at \in Positions : DocInsertNewline(at)
  \/ \E at \in Positions, c \in InsertChars : DocInsert(at, c)
  \/ \E at \in Positions : DocDelete(at)
  \/ \E io \in IoOutcomes : DocSave(io)
  \/ DocOpen

DocSpec == DocInit /\ [][DocNext]_vars

(***************************************************************************)
(* Properties of the editor session.                                       *)
(***************************************************************************)

(* process_key: any key event, dispatched and followed by scroll() *)
ProcessKey ==
  \/ \E code \in MoveCodes : KeyMove(code)
  \/ \E m \in Modifiers : KeyEnter(m) \/ KeyDelete(m) \/ KeyBackspace(m)
  \/ KeyEsc
  \/ \E io \in IoOutcomes : KeySave(io)
  \/ \E c \in KeyChars, m \in Modifiers : KeyChar(c, m)
  \/ \E code \in MoveCodes \cup OtherCodes \cup {"Esc"}, m \in Modifiers : KeyOther(code, m)

(* C1: in every state of a session the cursor row is between 0 and the     *)
(* number of rows and the cursor column is between 0 and the length of the *)
(* row under the cursor, 0 on the virtual trailing row.                    *)
C1_CursorInBuffer ==
  /\ cursor_position.row \in 0 .. DocLen(document)
  /\ cursor_position.col \in 0 .. RowLenAt(document, cursor_position.row)

(* the cursor sits on the virtual trailing row of a Buffer whose last row  *)
(* is not empty: its column was clamped to 0                               *)
C1_Witness ==
  /\ pc = "loop"
  /\ DocLen(document) > 0
  /\ cursor_position.row = DocLen(document)
  /\ RowLenAt(document, DocLen(document) - 1) > 0

(* the cursor lies in the window the offset and the terminal size span *)
InWindow ==
  /\ offset.row <= cursor_position.row
  /\ cursor_position.row < offset.row + terminal.rows
  /\ offset.col <= cursor_position.col
  /\ cursor_position.col < offset.col + terminal.columns

C7_SaveWithoutPathFails ==
  [][((\E io \in IoOutcomes : KeySave(io)) /\ document.path = "None")
       => status_message' = "Unable to write the file!"]_vars

(* C8: when the file named on the command line does not open or read,      *)
(* startup goes on with an empty Buffer that has no path: the process      *)
(* does not panic.                                                         *)
C8_OpenFailureDegrades ==
  (Len(args) > 1 /\ fs.state # "ok" /\ pc # "init")
  => (pc # "panic" /\ document = DocumentDefault)

(* the session is in its loop and asked to go on *)
Running == pc \in {"loop", "events"} /\ is_running

(* C9, as claimed: the loop leaves Running only on Escape without modifier *)
(* or at the end of the input stream.                                      *)
C9_StopsOnlyOnQuitOrEof ==
  [][(Running /\ ~Running') => (KeyEsc \/ EventNone)]_vars

(* C9, amended: the loop leaves Running only on Escape without modifier,   *)
(* at the end of the input stream, on an error of the input stream or on   *)
(* an error of refresh_screen; once it has left Running no event is        *)
(* dispatched, nothing of the editor changes and it is never Running       *)
(* again.                                                                  *)
C9_StopsOnlyOnQuitEofOrError ==
  [][/\ (Running /\ ~Running')
          => (KeyEsc \/ EventNone \/ EventError \/ RefreshFails)
     /\ (~Running /\ pc \notin {"init", "run"})
          => /\ ~Running'
             /\ pc' # "events"
             /\ UNCHANGED <<document, cursor_position, offset, status_message,
                            is_running, fs>>]_vars

(* run() returned Ok after the loop was left with an edited Buffer *)
C9_Witness ==
  /\ pc = "done"
  /\ ~is_running
  /\ document.dirty

(***************************************************************************)
(* Properties of the Document interface.                                   *)
(***************************************************************************)

(* delete at `at` joins the row with the next one *)
AtJoin(doc, at) ==
  /\ at.row + 1 < DocLen(doc)
  /\ at.col = RowLenAt(doc, at.row)

(* C3: on every Buffer, insert_newline at a row up to the length adds     *)
(* exactly one row; delete at the end of a row that has a following row    *)
(* removes exactly one row; every other delete leaves the number of rows   *)
(* as it was.                                                              *)
C3_LengthChange ==
  \A at \in Positions :
    /\ at.row <= DocLen(document)
         => DocLen(InsertNewline(document, at)) = DocLen(document) + 1
    /\ DocLen(Delete(document, at)) =
         IF AtJoin(document, at) THEN DocLen(document) - 1 ELSE DocLen(document)

(* a Document that was created empty has grown to three rows and lost one  *)
(* of its characters or rows again                                         *)
C3_Witness ==
  /\ pc = "document"
  /\ document.path = "None"
  /\ document.dirty
  /\ DocLen(document) = 3
  /\ Size(document.rows) < DocMaxSize

(* a position inside a row of the Buffer *)
InRow(doc, at) == at.row < DocLen(doc) /\ at.col <= RowLenAt(doc, at.row)

(* C4: on every Buffer, insert_newline at (r, c) inside row r keeps the    *)
(* rows before r, leaves the characters [0, c) in row r, puts the          *)
(* characters [c, end) in a new row r + 1 and keeps the rows after r, one  *)
(* index further; "hello" split at (0, 2) gives "he" and "llo".            *)
C4_SplitsRow ==
  /\ \A at \in Positions :
       InRow(document, at)
       => LET old == document.rows
              new == InsertNewline(document, at).rows
              r == at.row + 1
          IN /\ Len(new) = Len(old) + 1
             /\ \A i \in 1 .. (r - 1) : new[i] = old[i]
             /\ new[r] = SubSeq(old[r], 1, at.col)
             /\ new[r + 1] = SubSeq(old[r], at.col + 1, Len(old[r]))
             /\ \A i \in (r + 1) .. Len(old) : new[i + 1] = old[i]
  /\ InsertNewline([DocumentDefault EXCEPT !.rows = << <<"h", "e", "l", "l", "o">> >>],
                   Pos(2, 0)).rows
       = << <<"h", "e">>, <<"l", "l", "o">> >>

(* the row "bc" of the opened file, which no insert can write, is split    *)
(* between its characters, below the row before it                         *)
C4_Witness ==
  /\ pc = "document"
  /\ document.path = "Some"
  /\ document.rows = << <<>>, <<"b">>, <<"c">> >>

(* C5: on every Buffer, insert_newline at (r, c) inside row r, then       *)
(* delete at (r, c), gives back the rows as they were.                     *)
C5_SplitThenJoin ==
  \A at \in Positions :
    InRow(document, at)
    => Delete(InsertNewline(document, at), at).rows = document.rows

(* the row "bc" of the opened file is whole again after it was split: the  *)
(* Document is dirty and the file still holds one line "bc" after ""       *)
C5_Witness ==
  /\ pc = "document"
  /\ document.path = "Some"
  /\ document.dirty
  /\ document.rows = << <<>>, <<"b", "c">> >>
  /\ fs = File(<<LF, "b", "c">>)

RECURSIVE Count(_, _)
Count(bytes, ch) ==
  IF bytes = <<>> THEN 0
  ELSE (IF Head(bytes) = ch THEN 1 ELSE 0) + Count(Tail(bytes), ch)

(* the file holds one LF for each row and, besides, the characters of the  *)
(* rows; opened, it gives the rows                                         *)
RoundTrip(rows, file) ==
  /\ file.state = "ok"
  /\ Count(file.bytes, LF) = Len(rows)
  /\ Len(file.bytes) = Size(rows)
  /\ Open(file.bytes).rows = rows

(* C6, as claimed: save() of any Buffer with a path, the file system not   *)
(* failing, writes every row followed by one newline, and the file opens   *)
(* to the same rows.                                                       *)
C6_SaveOpenRoundTrip ==
  [][(DocSave("ok") /\ document.path = "Some")
       => RoundTrip(document.rows, fs')]_vars

EndsInCR(row) == Len(row) > 0 /\ row[Len(row)] = CR

(* C6, amended: the same for a Buffer none of whose rows ends in a         *)
(* carriage return.                                                        *)
C6_SaveOpenRoundTripNoCR ==
  (/\ document.path = "Some"
   /\ \A i \in 1 .. DocLen(document) : ~EndsInCR(document.rows[i]))
  => \A file \in SaveFiles(document, "ok", fs) : RoundTrip(document.rows, file)

(* an edited Buffer with an empty row is in the file as save() writes it   *)
C6_Witness ==
  /\ pc = "document"
  /\ document.path = "Some"
  /\ document.dirty
  /\ \E i \in 1 .. DocLen(document) : document.rows[i] = <<>>
  /\ \E i \in 1 .. DocLen(document) : document.rows[i] # <<>>
  /\ fs = File(WriteRows(document.rows))

(* C10: insert and insert_newline at a row beyond the length, and delete   *)
(* at a row at or beyond the length, leave the rows and the dirty flag as  *)
(* they were.                                                              *)
C10_OutOfRangeNoOp ==
  \A at \in Positions :
    /\ at.row > DocLen(document)
         => /\ InsertNewline(document, at) = document
            /\ \A c \in InsertChars : Insert(document, at, c) = document
    /\ at.row >= DocLen(document) => Delete(document, at) = document

(* a Buffer with rows, still clean after it was saved, and positions       *)
(* beyond its rows                                                         *)
C10_Witness ==
  /\ pc = "document"
  /\ ~document.dirty
  /\ DocLen(document) = 2
  /\ fs = File(WriteRows(document.rows))
  /\ \E at \in Positions : at.row > DocLen(document)

(* C11: a Buffer is clean when it is created, by default or by open, and   *)
(* every step that ends in a clean Buffer either creates it or starts from *)
(* a clean Buffer and leaves its rows as they were: a clean Buffer has the *)
(* rows it was created with.                                               *)
C11_CleanMeansUnchanged ==
  [][~document'.dirty
       => \/ ~document.dirty /\ document'.rows = document.rows
          \/ DocOpen]_vars

(* the Buffer opened from "a CR CR LF" was saved and opened again: it is   *)
(* clean and has the row "a" its file now gives                            *)
C11_Witness ==
  /\ pc = "document"
  /\ document.path = "Some"
  /\ ~document.dirty
  /\ document.rows = << <<"a">> >>
  /\ fs = File(<<"a", LF>>)

(* the valid positions of the Buffer model: a column of an existing row, or *)
(* the append row with column 0                                             *)
Valid(doc, at) ==
  \/ InRow(doc, at)
  \/ at.row = DocLen(doc) /\ at.col = 0

(* C12 as stated: on every Buffer, at every valid position, the append row  *)
(* included, and for every character other than the newline, insert        *)
(* followed by delete at the same position gives back the rows as they     *)
(* were before the insert.                                                 *)
C12_InsertThenDelete ==
  pc = "document" =>
    \A at \in Positions : \A c \in InsertChars \ {LF} :
      Valid(document, at)
        => Delete(Insert(document, at, c), at).rows = document.rows

(* C12: on every Buffer, at every column 0 .. length of an existing row,   *)
(* and for every character other than the newline, insert followed by      *)
(* delete at the same position gives back the rows as they were before the *)
(* insert.                                                                 *)
C12_InsertThenDeleteInRow ==
  pc = "document" =>
    \A at \in Positions : \A c \in InsertChars \ {LF} :
      InRow(document, at)
        => Delete(Insert(document, at, c), at).rows = document.rows

(* an edited Buffer with a row of two different characters, where the      *)
(* insert between them changes the row and the delete restores it          *)
C12_Witness ==
  /\ pc = "document"
  /\ document.dirty
  /\ \E at \in Positions :
       /\ InRow(document, at)
       /\ 0 < at.col /\ at.col < RowLenAt(document, at.row)
       /\ document.rows[at.row + 1][at.col] # document.rows[at.row + 1][at.col + 1]
       /\ Insert(document, at, "a").rows # document.rows
       /\ Delete(Insert(document, at, "a"), at).rows = document.rows

(* the rows of doc without the character at column col of row r *)
WithoutChar(doc, r, col) ==
  [doc.rows EXCEPT ![r + 1] = SubSeq(@, 1, col) \o SubSeq(@, col + 2, Len(@))]

(* the rows of doc with row r put at the end of row r - 1 *)
Joined(doc, r) ==
  SubSeq(doc.rows, 1, r - 1)
    \o << doc.rows[r] \o doc.rows[r + 1] >>
    \o SubSeq(doc.rows, r + 2, Len(doc.rows))

(* C13 as stated: Backspace at (0, 0) changes nothing; in every other      *)
(* state of a session it removes the character before the cursor, or at    *)
(* column 0 joins the cursor's row to the previous row, and leaves the     *)
(* cursor where the removed unit was.                                      *)
C13_BackspaceRemovesUnit ==
  pc = "events" =>
    LET cur == cursor_position
        key == Backspace(document, cur, terminal.rows)
    IN /\ cur = Pos(0, 0)
            => key.document = document /\ key.cursor_position = cur
       /\ cur.col > 0
            => /\ key.document.rows = WithoutChar(document, cur.row, cur.col - 1)
               /\ key.cursor_position = Pos(cur.col - 1, cur.row)
       /\ cur.col = 0 /\ cur.row > 0
            => /\ cur.row < DocLen(document)
               /\ key.document.rows = Joined(document, cur.row)
               /\ key.cursor_position
                    = Pos(RowLenAt(document, cur.row - 1), cur.row - 1)

(* C13: Backspace at (0, 0) changes nothing; with the cursor on a row of   *)
(* the Buffer it removes the character before the cursor, or at column 0   *)
(* of a row after the first joins that row to the previous row, and leaves *)
(* the cursor where the removed unit was; with the cursor on the virtual   *)
(* trailing row of a non-empty Buffer it keeps the rows, marks the Buffer  *)
(* dirty and moves the cursor to the end of the last row.                  *)
C13_BackspaceInBuffer ==
  pc = "events" =>
    LET cur == cursor_position
        key == Backspace(document, cur, terminal.rows)
    IN /\ cur = Pos(0, 0)
            => key.document = document /\ key.cursor_position = cur
       /\ cur.col > 0
            => /\ key.document.rows = WithoutChar(document, cur.row, cur.col - 1)
               /\ key.document.dirty
               /\ key.cursor_position = Pos(cur.col - 1, cur.row)
       /\ cur.col = 0 /\ cur.row > 0 /\ cur.row < DocLen(document)
            => /\ key.document.rows = Joined(document, cur.row)
               /\ key.document.dirty
               /\ key.cursor_position
                    = Pos(RowLenAt(document, cur.row - 1), cur.row - 1)
       /\ cur.row > 0 /\ cur.row = DocLen(document)
            => /\ key.document.rows = document.rows
               /\ key.document.dirty
               /\ key.cursor_position
                    = Pos(RowLenAt(document, cur.row - 1), cur.row - 1)

(* a session with the cursor at column 0 of a non-empty row that follows a *)
(* non-empty row: Backspace joins the two rows                             *)
C13_Witness ==
  /\ pc = "events"
  /\ cursor_position.col = 0
  /\ cursor_position.row > 0
  /\ cursor_position.row < DocLen(document)
  /\ RowLenAt(document, cursor_position.row) > 0
  /\ RowLenAt(document, cursor_position.row - 1) > 0
  /\ DocLen(Backspace(document, cursor_position, terminal.rows).document)
       = DocLen(document) - 1

(* C14: in every state of a session Right adds one to the column when the  *)
(* cursor is before the end of its row, moves to column 0 of the next row  *)
(* when the cursor is at the end of a row that is not the last row, and    *)
(* leaves the cursor where it is at the end of the last row.               *)
C14_RightStopsAtLastRow ==
  pc = "events" =>
    LET cur == cursor_position
        width == RowLenAt(document, cur.row)
        right == MoveCursor(document, cur, terminal.rows, "Right")
    IN /\ cur.col < width => right = Pos(cur.col + 1, cur.row)
       /\ cur.col = width /\ cur.row + 1 < DocLen(document)
            => right = Pos(0, cur.row + 1)
       /\ cur.col = width /\ cur.row + 1 >= DocLen(document)
            => right = cur

MinimalJump(at, old, new, extent) ==
  /\ (old <= at /\ at < old + extent) => new = old
  /\ at < old => new = at
  /\ at >= old + extent => new = at - extent + 1

(* scroll() is a minimal jump from the offset of this state, wherever the  *)
(* event being dispatched puts the cursor                                  *)
ScrollIsMinimal ==
  pc = "events" =>
    /\ \A row \in 0 .. MaxRow :
         MinimalJump(row, offset.row,
                     Scroll(Pos(0, row), offset, terminal).row, terminal.rows)
    /\ \A col \in 0 .. MaxCol :
         MinimalJump(col, offset.col,
                     Scroll(Pos(col, 0), offset, terminal).col, terminal.columns)

(* C16: scroll leaves an offset component as it is when the cursor lies in *)
(* the window, sets it to the cursor coordinate when the cursor is before  *)
(* the offset and to cursor - extent + 1 when the cursor is at or past     *)
(* offset + extent; a step of the session that changes the offset is the   *)
(* dispatch of an event and the change is that jump to the new cursor.     *)
C16_MinimalJump ==
  /\ []ScrollIsMinimal
  /\ [][offset' # offset
          => /\ pc = "events" /\ pc' = "loop"
             /\ MinimalJump(cursor_position'.row, offset.row, offset'.row,
                            terminal.rows)
             /\ MinimalJump(cursor_position'.col, offset.col, offset'.col,
                            terminal.columns)]_vars

(* in a window of two rows the row offset has reached 2 and the cursor is  *)
(* on the first row of the window                                          *)
C16_Witness ==
  /\ pc = "loop"
  /\ terminal.rows = 2
  /\ offset.row = 2
  /\ cursor_position.row = 2

(* C17 as stated: on every Buffer, insert of a character other than the    *)
(* newline leaves the number of rows as it is, and delete never adds a row. *)
C17_OnlyNewlineGrows ==
  pc = "document" =>
    \A at \in Positions :
      /\ \A c \in InsertChars \ {LF} :
           DocLen(Insert(document, at, c)) = DocLen(document)
      /\ DocLen(Delete(document, at)) <= DocLen(document)

(* C17: on every Buffer, insert of a character other than the newline adds *)
(* one row at the append position (row = number of rows) and leaves the    *)
(* number of rows as it is everywhere else; insert of the newline is        *)
(* insert_newline; delete never adds a row.                                *)
C17_NewlineOrAppendGrows ==
  pc = "document" =>
    \A at \in Positions :
      /\ \A c \in InsertChars \ {LF} :
           DocLen(Insert(document, at, c))
             = IF at.row = DocLen(document) THEN DocLen(document) + 1
               ELSE DocLen(document)
      /\ Insert(document, at, LF)
           = IF at.row > DocLen(document) THEN document
             ELSE InsertNewline([document EXCEPT !.dirty = TRUE], at)
      /\ DocLen(Delete(document, at)) <= DocLen(document)

(* the empty Buffer got its first row from the insert of "a" at (0, 0)      *)
C17_Witness ==
  /\ pc = "document"
  /\ document = [rows |-> << <<"a">> >>, path |-> "None", dirty |-> TRUE]
  /\ Insert(DocumentDefault, Pos(0, 0), "a") = document

(* C18: a session that ends on a failure of refresh_screen or on an error  *)
(* event of the input stream ends with the screen cleared.                 *)
C18_FailureClearsScreen ==
  [][(RefreshFails \/ EventError)
       => screen' = "cleared" /\ pc' \in {"error", "panic"}]_vars

(* C19: in every state of a session, when Right moves the cursor a         *)
(* following Left puts it back, and when Left moves the cursor a following *)
(* Right puts it back; Left and Right leave the Buffer as it is.           *)
C19_LeftRightInverse ==
  pc = "events" =>
    LET cur == cursor_position
        right == Navigate(document, cur, terminal.rows, "Right")
        left == Navigate(document, cur, terminal.rows, "Left")
    IN /\ right.document = document
       /\ left.document = document
       /\ right.cursor_position # cur
            => Navigate(document, right.cursor_position, terminal.rows, "Left")
                 .cursor_position = cur
       /\ left.cursor_position # cur
            => Navigate(document, left.cursor_position, terminal.rows, "Right")
                 .cursor_position = cur

(* the cursor is at the end of a non-empty row that has a next row: Right  *)
(* goes to the start of the next row and Left comes back                   *)
C19_Witness ==
  /\ pc = "events"
  /\ cursor_position.col = RowLenAt(document, cursor_position.row)
  /\ cursor_position.col > 0
  /\ cursor_position.row + 1 < DocLen(document)
  /\ MoveCursor(document, cursor_position, terminal.rows, "Right")
       = Pos(0, cursor_position.row + 1)
  /\ MoveCursor(document, Pos(0, cursor_position.row + 1), terminal.rows, "Left")
       = cursor_position

(* C20: in every state of a Buffer that was opened from a file or created  *)
(* empty and then edited by insert, of the newline too, insert_newline and *)
(* delete at any position, no row holds a newline character.               *)
C20_NoNewlineInRow ==
  pc = "document" =>
    \A i \in 1 .. DocLen(document) :
      \A j \in 1 .. Len(document.rows[i]) : document.rows[i][j] # LF

(* the empty Buffer after insert of "a" at (0, 0) and insert of the newline *)
(* at the end of that row                                                  *)
C20_Witness ==
  /\ pc = "document"
  /\ document = Insert(Insert(DocumentDefault, Pos(0, 0), "a"), Pos(1, 0), LF)
  /\ document.rows = << <<"a">>, <<>> >>

====
